---- MODULE Spec2Model ----
(***************************************************************************)
(* Model of the hand-tracking component of src/src/App.tsx: the camera     *)
(* permission probe, the asynchronous start sequence (detector, capture    *)
(* stream, video.play), the two requestAnimationFrame loops, stop and      *)
(* unmount.                                                                *)
(*                                                                         *)
(* Every await of the source is a separate action (the promise settling);  *)
(* the synchronous code between two awaits is one action.  The callbacks   *)
(* of one display refresh run back to back: TickBegin takes the list of    *)
(* scheduled callbacks and RunCallback runs them one after the other with  *)
(* nothing else in between.                                                *)
(*                                                                         *)
(* Detectors and capture streams are named by the number of the start      *)
(* attempt that created them.  Normalised coordinates are integers in      *)
(* units of 1/Unit, scores are in hundredths and screen positions are      *)
(* exact rationals in units of 1/PixDen pixel.                             *)
(***************************************************************************)
EXTENDS Integers, Sequences, FiniteSets, TLC

\* ---- bounds of the model ----
MaxStarts == 2          \* start commands issued in one behaviour
MaxHands == 1           \* hands in one detection result

\* ---- constants of the program ----
gestureThreshold == 10  \* 0.1, in hundredths
verticalOffset == 0
DetectionScaleNum == 4  \* detectionScale = 0.8 = 4/5
DetectionScaleDen == 5
VideoWidth == 640
VideoHeight == 480
HAVE_NOTHING == 0
HAVE_FUTURE_DATA == 3
HAVE_ENOUGH_DATA == 4

\* ---- environment: window.innerWidth / innerHeight, coordinate grid ----
InnerWidth == 800
InnerHeight == 600
Unit == 10

pointGesture == "Pointing_Up"
Null == 0
Modes == {"hand", "gesture"}

VARIABLES
  cameraPermission,     \* useState: idle | requesting | granted | denied
  isProcessing,         \* useState
  processingMode,       \* useState: hand | gesture
  fingerPositions,      \* useState: handIndex -> screen position
  mounted,              \* the component is mounted (videoRef.current is set)
  handLandmarkerRef,    \* Null or the attempt that created the detector
  gestureRecognizerRef, \* Null or the attempt that created the detector
  streamRef,            \* Null or the attempt that acquired the stream
  srcObject,            \* video.srcObject: Null or a stream
  readyState,           \* video.readyState
  attempts,             \* one record per startProcessing call
  rafQueue,             \* callbacks scheduled with requestAnimationFrame
  running,              \* callbacks of the refresh in progress, not yet run
  stopped,              \* a stop hit a Streaming session, no start since
  event,                \* what the last step did
  interactiveElements,  \* useState: id and isActive of the two regions
  probe,                \* the stream of requestCameraAccess: none | live | stopped
  layout,               \* getBoundingClientRect of the two region elements
  call                  \* arguments and result of the function under study

vars == <<cameraPermission, isProcessing, processingMode, fingerPositions,
          mounted, handLandmarkerRef, gestureRecognizerRef, streamRef,
          srcObject, readyState, attempts, rafQueue, running, stopped, event,
          interactiveElements, probe, layout, call>>

\* ---- detection results ----
Classifications ==
  { [categoryName |-> pointGesture, score |-> gestureThreshold],
    [categoryName |-> pointGesture, score |-> gestureThreshold - 1],
    [categoryName |-> "Open_Palm", score |-> 90] }

\* landmarks[indexFingerTip] of one hand: absent, or a normalised point
Tips ==
  { [hasTip |-> FALSE, x |-> 0, y |-> 0],
    [hasTip |-> TRUE, x |-> 5, y |-> 5],
    [hasTip |-> TRUE, x |-> 0, y |-> 5] }

\* gestures[handIndex]: the classifications of one hand, best first
Rankings ==
  { <<c>> : c \in Classifications }
    \cup { <<c, [categoryName |-> pointGesture, score |-> 90]>> :
             c \in Classifications }
    \cup { << [categoryName |-> pointGesture, score |-> gestureThreshold],
              [categoryName |-> "Open_Palm", score |-> 5] >> }

Hands == { [tip |-> t, gestures |-> g] : t \in Tips, g \in Rankings }

RECURSIVE SeqsUpTo(_, _)
SeqsUpTo(S, n) ==
  IF n = 0 THEN { <<>> }
  ELSE LET shorter == SeqsUpTo(S, n - 1)
       IN shorter \cup { Append(s, e) : s \in { t \in shorter : Len(t) = n - 1 }, e \in S }

Frames == SeqsUpTo(Hands, MaxHands)

\* ---- convertToScreenPosition ----
\* The values the function closes over, as a record: the window size w x h,
\* detectionScale = sn / sd and the vertical offset vo.  ProgramConfig is
\* what the source fixes; the function is also studied under other values.
ProgramConfig ==
  [w |-> InnerWidth, h |-> InnerHeight,
   sn |-> DetectionScaleNum, sd |-> DetectionScaleDen, vo |-> verticalOffset]

\* positions are in units of 1/PixDenIn(c) pixel
PixDenIn(c) == 2 * Unit * VideoWidth * c.sn

\* scaledX and scaledY as numerators over ScaledXDenIn and ScaledYDenIn
ScaledXDenIn(c) == 2 * Unit * c.sn
ScaledXNumIn(x, c) == (2 * x - Unit) * c.sd + Unit * c.sn
ScaledYDenIn(c) == 2 * Unit * c.h * VideoWidth * c.sn
ScaledYNumIn(y, c) ==
  (2 * y - Unit) * c.w * VideoHeight * c.sd + Unit * c.h * VideoWidth * c.sn

NoPosition == [ok |-> FALSE, x |-> 0, y |-> 0]

\* convertToScreenPosition with scaledX or scaledY on 0 or 1 rejected too
ConvertStrict(x, y, c) ==
  IF \/ ScaledXNumIn(x, c) <= 0 \/ ScaledXNumIn(x, c) >= ScaledXDenIn(c)
     \/ ScaledYNumIn(y, c) <= 0 \/ ScaledYNumIn(y, c) >= ScaledYDenIn(c)
  THEN NoPosition
  ELSE [ok |-> TRUE,
        x |-> (ScaledXDenIn(c) - ScaledXNumIn(x, c)) * c.w * VideoWidth,
        y |-> ScaledYNumIn(y, c) + c.vo * PixDenIn(c)]

\* convertToScreenPosition without the test on scaledY
ConvertNoYTest(x, y, c) ==
  IF \/ ScaledXNumIn(x, c) < 0 \/ ScaledXNumIn(x, c) > ScaledXDenIn(c)
  THEN NoPosition
  ELSE [ok |-> TRUE,
        x |-> (ScaledXDenIn(c) - ScaledXNumIn(x, c)) * c.w * VideoWidth,
        y |-> ScaledYNumIn(y, c) + c.vo * PixDenIn(c)]

\* convertToScreenPosition without the horizontal flip
ConvertNoFlip(x, y, c) ==
  IF \/ ScaledXNumIn(x, c) < 0 \/ ScaledXNumIn(x, c) > ScaledXDenIn(c)
     \/ ScaledYNumIn(y, c) < 0 \/ ScaledYNumIn(y, c) > ScaledYDenIn(c)
  THEN NoPosition
  ELSE [ok |-> TRUE,
        x |-> ScaledXNumIn(x, c) * c.w * VideoWidth,
        y |-> ScaledYNumIn(y, c) + c.vo * PixDenIn(c)]

\* convertToScreenPosition(x, y) under the values c
Convert(x, y, c) ==
  IF \/ ScaledXNumIn(x, c) < 0 \/ ScaledXNumIn(x, c) > ScaledXDenIn(c)
     \/ ScaledYNumIn(y, c) < 0 \/ ScaledYNumIn(y, c) > ScaledYDenIn(c)
  THEN NoPosition
  ELSE [ok |-> TRUE,
        x |-> (ScaledXDenIn(c) - ScaledXNumIn(x, c)) * c.w * VideoWidth,
        y |-> ScaledYNumIn(y, c) + c.vo * PixDenIn(c)]

PixDen == PixDenIn(ProgramConfig)
ScaledXDen == ScaledXDenIn(ProgramConfig)
ScaledXNum(x) == ScaledXNumIn(x, ProgramConfig)
ScaledYDen == ScaledYDenIn(ProgramConfig)
ScaledYNum(y) == ScaledYNumIn(y, ProgramConfig)

convertToScreenPosition(x, y) == Convert(x, y, ProgramConfig)

EmptyPositions == [h \in {} |-> NoPosition]

\* the hand indexes of a result, from 0
HandIndexes(result) == 0 .. (Len(result) - 1)

\* newPositions of processHandLandmarker: every hand with an index-finger
\* tip that maps into the screen
HandPositions(result) ==
  LET pos(h) == convertToScreenPosition(result[h + 1].tip.x, result[h + 1].tip.y)
      kept == { h \in HandIndexes(result) : result[h + 1].tip.hasTip /\ pos(h).ok }
  IN [h \in kept |-> pos(h)]

\* GesturePositions with every classification of the hand consulted
GesturePositionsAnyRank(result) ==
  LET pos(h) == convertToScreenPosition(result[h + 1].tip.x, result[h + 1].tip.y)
      kept == { h \in HandIndexes(result) :
                  /\ \E k \in DOMAIN result[h + 1].gestures :
                       /\ result[h + 1].gestures[k].categoryName = pointGesture
                       /\ ~(result[h + 1].gestures[k].score < gestureThreshold)
                  /\ result[h + 1].tip.hasTip
                  /\ pos(h).ok }
  IN [h \in kept |-> pos(h)]

\* newPositions of processGestureRecognizer: as above, for the hands whose
\* first classification is the pointing gesture with a sufficient score
GesturePositions(result) ==
  LET pos(h) == convertToScreenPosition(result[h + 1].tip.x, result[h + 1].tip.y)
      kept == { h \in HandIndexes(result) :
                  /\ result[h + 1].gestures[1].categoryName = pointGesture
                  /\ ~(result[h + 1].gestures[1].score < gestureThreshold)
                  /\ result[h + 1].tip.hasTip
                  /\ pos(h).ok }
  IN [h \in kept |-> pos(h)]

\* HandUpdate that leaves the map alone for a result without hands
HandUpdateKeepsStale(result) ==
  IF Len(result) > 0 THEN HandPositions(result) ELSE fingerPositions

\* what setFingerPositions receives after a detector call that returned:
\* newPositions, or {} for a result without hands
HandUpdate(result) ==
  IF Len(result) > 0 THEN HandPositions(result) ELSE EmptyPositions

GestureUpdate(result) ==
  IF Len(result) > 0 THEN GesturePositions(result) ELSE EmptyPositions

HandOutcomes == { HandUpdate(result) : result \in Frames }

GestureOutcomes == { GestureUpdate(result) : result \in Frames }

\* ---- the interactive regions ----
RegionSize == 128       \* w-32 h-32

\* element1 at left 20% / top 30%, element2 at right 20% / top 50% of the
\* window, in pixels
ProgramLayout ==
  << [left |-> InnerWidth \div 5, top |-> (3 * InnerHeight) \div 10,
      right |-> InnerWidth \div 5 + RegionSize,
      bottom |-> (3 * InnerHeight) \div 10 + RegionSize],
     [left |-> InnerWidth - InnerWidth \div 5 - RegionSize,
      top |-> InnerHeight \div 2,
      right |-> InnerWidth - InnerWidth \div 5,
      bottom |-> InnerHeight \div 2 + RegionSize] >>

InitialElements ==
  << [id |-> "element1", isActive |-> FALSE],
     [id |-> "element2", isActive |-> FALSE] >>

\* region 2 moved onto region 1, its top-left corner inside region 1
OverlapLayout ==
  << ProgramLayout[1],
     [left |-> ProgramLayout[1].left + 40, top |-> ProgramLayout[1].top + 120,
      right |-> ProgramLayout[1].left + 40 + RegionSize,
      bottom |-> ProgramLayout[1].top + 120 + RegionSize] >>

Layouts == { ProgramLayout, OverlapLayout }

\* checkCollision with the left edge excluded
checkCollisionOpenLeft(fingerPos, rect) ==
  /\ fingerPos.x > rect.left * PixDen
  /\ fingerPos.x <= rect.right * PixDen
  /\ fingerPos.y >= rect.top * PixDen
  /\ fingerPos.y <= rect.bottom * PixDen

checkCollision(fingerPos, rect) ==
  /\ fingerPos.x >= rect.left * PixDen
  /\ fingerPos.x <= rect.right * PixDen
  /\ fingerPos.y >= rect.top * PixDen
  /\ fingerPos.y <= rect.bottom * PixDen

\* the effect on fingerPositions: the new value of interactiveElements
CollisionEffect(positions, prev, rects) ==
  IF DOMAIN positions = {}
  THEN [index \in DOMAIN prev |-> [prev[index] EXCEPT !.isActive = FALSE]]
  ELSE [index \in DOMAIN prev |->
          [prev[index] EXCEPT !.isActive =
             \E h \in DOMAIN positions : checkCollision(positions[h], rects[index])]]

\* ---- the session state the claims speak of ----
videoRef == mounted

InFlight(a) == attempts[a].pc \in {"detector", "stream", "play"}

\* the latest start command has started its frame loop and was not stopped
Streaming ==
  /\ isProcessing
  /\ attempts # <<>>
  /\ attempts[Len(attempts)].pc = "looping"

LiveStreams == { a \in DOMAIN attempts : attempts[a].stream = "live" }

HeldDetectors ==
  { <<"hand", handLandmarkerRef>>, <<"gesture", gestureRecognizerRef>> }
    \ { <<"hand", Null>>, <<"gesture", Null>> }

Ev(op, fn, owner, outcome) ==
  [op |-> op, fn |-> fn, owner |-> owner, outcome |-> outcome]

\* nothing is recorded in call outside the specifications of one function
NoCall == [kind |-> "none"]

\* setFingerPositions(newPositions) of a mounted component, with the render
\* and the collision effect that follow it
setFingerPositions(newPositions) ==
  /\ fingerPositions' = newPositions
  /\ interactiveElements' = CollisionEffect(newPositions, interactiveElements, layout)

\* the component as first rendered
FreshComponent ==
  /\ cameraPermission = "idle"
  /\ isProcessing = FALSE
  /\ processingMode = "hand"
  /\ fingerPositions = EmptyPositions
  /\ mounted = TRUE
  /\ handLandmarkerRef = Null
  /\ gestureRecognizerRef = Null
  /\ streamRef = Null
  /\ srcObject = Null
  /\ readyState = HAVE_NOTHING
  /\ attempts = <<>>
  /\ rafQueue = <<>>
  /\ running = <<>>
  /\ stopped = FALSE
  /\ event = Ev("init", "none", 0, "none")
  /\ interactiveElements = InitialElements
  /\ probe = "none"
  /\ layout = ProgramLayout

Init ==
  /\ FreshComponent
  /\ call = NoCall

\* ---- the frame loops ----
\* processHandLandmarker without the readyState test of its guard
processHandLandmarkerNoReadyCheck(owner) ==
  LET video == videoRef
      handLandmarker == handLandmarkerRef
      again == Append(rafQueue, [fn |-> "hand", owner |-> owner])
  IN IF ~video \/ handLandmarker = Null
     THEN /\ rafQueue' = again
          /\ UNCHANGED <<fingerPositions, interactiveElements>>
          /\ event' = Ev("iterate", "hand", owner, "notready")
     ELSE /\ \/ \E newPositions \in HandOutcomes :
                  /\ setFingerPositions(newPositions)
                  /\ event' = Ev("iterate", "hand", owner, "detected")
             \/ /\ UNCHANGED <<fingerPositions, interactiveElements>>
                /\ event' = Ev("iterate", "hand", owner, "threw")
          /\ rafQueue' = again

\* One call of processHandLandmarker, made for the loop that attempt owner
\* started.  It sets fingerPositions, rafQueue and event.
processHandLandmarker(owner) ==
  LET video == videoRef
      handLandmarker == handLandmarkerRef
      again == Append(rafQueue, [fn |-> "hand", owner |-> owner])
  IN IF ~video \/ handLandmarker = Null \/ readyState # HAVE_ENOUGH_DATA
     THEN /\ rafQueue' = again
          /\ UNCHANGED <<fingerPositions, interactiveElements>>
          /\ event' = Ev("iterate", "hand", owner, "notready")
     ELSE /\ \/ \E newPositions \in HandOutcomes :
                  /\ setFingerPositions(newPositions)
                  /\ event' = Ev("iterate", "hand", owner, "detected")
             \/ \* detectForVideo throws: the catch only logs
                /\ UNCHANGED <<fingerPositions, interactiveElements>>
                /\ event' = Ev("iterate", "hand", owner, "threw")
          /\ rafQueue' = again

processGestureRecognizer(owner) ==
  LET video == videoRef
      gestureRecognizer == gestureRecognizerRef
      again == Append(rafQueue, [fn |-> "gesture", owner |-> owner])
  IN IF ~video \/ gestureRecognizer = Null \/ readyState # HAVE_ENOUGH_DATA
     THEN /\ rafQueue' = again
          /\ UNCHANGED <<fingerPositions, interactiveElements>>
          /\ event' = Ev("iterate", "gesture", owner, "notready")
     ELSE /\ \/ \E newPositions \in GestureOutcomes :
                  /\ setFingerPositions(newPositions)
                  /\ event' = Ev("iterate", "gesture", owner, "detected")
             \/ \* recognizeForVideo throws: the catch only logs
                /\ UNCHANGED <<fingerPositions, interactiveElements>>
                /\ event' = Ev("iterate", "gesture", owner, "threw")
          /\ rafQueue' = again

ProcessFrame(fn, owner) ==
  IF fn = "hand" THEN processHandLandmarker(owner)
  ELSE processGestureRecognizer(owner)

\* the browser starts a display refresh: it takes the scheduled callbacks
TickBegin ==
  /\ running = <<>>
  /\ rafQueue # <<>>
  /\ running' = rafQueue
  /\ rafQueue' = <<>>
  /\ event' = Ev("tick", "none", 0, "none")
  /\ UNCHANGED <<cameraPermission, isProcessing, processingMode, fingerPositions,
                 mounted, handLandmarkerRef, gestureRecognizerRef, streamRef,
                 srcObject, readyState, attempts, stopped,
                 interactiveElements, probe, layout, call>>

\* ... and runs them in order
RunCallback ==
  /\ running # <<>>
  /\ ProcessFrame(Head(running).fn, Head(running).owner)
  /\ running' = Tail(running)
  /\ UNCHANGED <<cameraPermission, isProcessing, processingMode, mounted,
                 handLandmarkerRef, gestureRecognizerRef, streamRef,
                 srcObject, readyState, attempts, stopped,
                 probe, layout, call>>

\* ---- camera permission ----
requestCameraAccess ==
  /\ running = <<>>
  /\ mounted
  /\ cameraPermission \in {"idle", "denied"}
  /\ cameraPermission' = "requesting"
  /\ event' = Ev("request", "none", 0, "none")
  /\ UNCHANGED <<isProcessing, processingMode, fingerPositions, mounted,
                 handLandmarkerRef, gestureRecognizerRef, streamRef, srcObject,
                 readyState, attempts, rafQueue, running, stopped,
                 interactiveElements, probe, layout, call>>

\* CameraAccessSettles with the probe stream's tracks left running
CameraAccessSettlesKeepsProbe ==
  /\ running = <<>>
  /\ cameraPermission = "requesting"
  /\ \E ok \in BOOLEAN :
       /\ cameraPermission' = IF ok THEN "granted" ELSE "denied"
       /\ probe' = IF ok THEN "live" ELSE "none"
       /\ event' = Ev("probe", "none", 0, IF ok THEN "granted" ELSE "denied")
  /\ UNCHANGED <<isProcessing, processingMode, fingerPositions, mounted,
                 handLandmarkerRef, gestureRecognizerRef, streamRef, srcObject,
                 readyState, attempts, rafQueue, running, stopped,
                 interactiveElements, layout, call>>

\* getUserMedia of the probe settles; on success the probe stream's tracks
\* are stopped in the same continuation, so the probe stream is never held
CameraAccessSettles ==
  /\ running = <<>>
  /\ cameraPermission = "requesting"
  /\ \E ok \in BOOLEAN :
       /\ cameraPermission' = IF ok THEN "granted" ELSE "denied"
       /\ probe' = IF ok THEN "stopped" ELSE "none"
       /\ event' = Ev("probe", "none", 0, IF ok THEN "granted" ELSE "denied")
  /\ UNCHANGED <<isProcessing, processingMode, fingerPositions, mounted,
                 handLandmarkerRef, gestureRecognizerRef, streamRef, srcObject,
                 readyState, attempts, rafQueue, running, stopped,
                 interactiveElements, layout, call>>

\* ---- commands ----
\* setProcessingMode that also switches the sessions already started
setProcessingModeSwitchesSession ==
  /\ running = <<>>
  /\ mounted
  /\ cameraPermission = "granted"
  /\ \E m \in Modes :
       /\ m # processingMode
       /\ processingMode' = m
       /\ attempts' = [a \in DOMAIN attempts |-> [attempts[a] EXCEPT !.mode = m]]
  /\ event' = Ev("mode", "none", 0, "none")
  /\ UNCHANGED <<cameraPermission, isProcessing, fingerPositions, mounted,
                 handLandmarkerRef, gestureRecognizerRef, streamRef, srcObject,
                 readyState, rafQueue, running, stopped,
                 interactiveElements, probe, layout, call>>

\* a mode button
setProcessingMode ==
  /\ running = <<>>
  /\ mounted
  /\ cameraPermission = "granted"
  /\ \E m \in Modes :
       /\ m # processingMode
       /\ processingMode' = m
  /\ event' = Ev("mode", "none", 0, "none")
  /\ UNCHANGED <<cameraPermission, isProcessing, fingerPositions, mounted,
                 handLandmarkerRef, gestureRecognizerRef, streamRef, srcObject,
                 readyState, attempts, rafQueue, running, stopped,
                 interactiveElements, probe, layout, call>>

\* the start button: startProcessing up to its first await
startProcessing ==
  /\ running = <<>>
  /\ mounted
  /\ cameraPermission = "granted"
  /\ ~isProcessing
  /\ Len(attempts) < MaxStarts
  /\ isProcessing' = TRUE
  /\ attempts' = Append(attempts, [mode |-> processingMode, pc |-> "detector",
                                   stream |-> "none", cancelled |-> FALSE])
  /\ stopped' = FALSE
  /\ event' = Ev("start", "none", Len(attempts) + 1, "none")
  /\ UNCHANGED <<cameraPermission, processingMode, fingerPositions, mounted,
                 handLandmarkerRef, gestureRecognizerRef, streamRef, srcObject,
                 readyState, rafQueue, running,
                 interactiveElements, probe, layout, call>>

\* a failure branch that returns without setIsProcessing(false)
AbortStartKeepsProcessing(a) ==
  /\ UNCHANGED isProcessing
  /\ attempts' = [attempts EXCEPT ![a].pc = "failed"]
  /\ event' = Ev("abort", "none", a, "none")

\* the failure branches of startProcessing: setIsProcessing(false); return
AbortStart(a) ==
  /\ isProcessing' = FALSE
  /\ attempts' = [attempts EXCEPT ![a].pc = "failed"]
  /\ event' = Ev("abort", "none", a, "none")

\* initializeHandLandmarker / initializeGestureRecognizer settle (the two
\* awaits in them change nothing in between and are one step here)
InitializeDetectorSettles(a) ==
  /\ running = <<>>
  /\ attempts[a].pc = "detector"
  /\ \/ /\ IF attempts[a].mode = "hand"
           THEN handLandmarkerRef' = a /\ UNCHANGED gestureRecognizerRef
           ELSE gestureRecognizerRef' = a /\ UNCHANGED handLandmarkerRef
        \* startVideoStream is called and awaits getUserMedia
        /\ attempts' = [attempts EXCEPT ![a].pc = "stream"]
        /\ event' = Ev("detector", "none", a, "none")
        /\ UNCHANGED isProcessing
     \/ /\ AbortStart(a)
        /\ UNCHANGED <<handLandmarkerRef, gestureRecognizerRef>>
  /\ UNCHANGED <<cameraPermission, processingMode, fingerPositions, mounted,
                 streamRef, srcObject, readyState, rafQueue, running, stopped,
                 interactiveElements, probe, layout, call>>

\* getUserMedia of startVideoStream settles
GetUserMediaSettles(a) ==
  /\ running = <<>>
  /\ attempts[a].pc = "stream"
  /\ \/ \* a stream: streamRef.current = stream
        /\ streamRef' = a
        /\ IF videoRef
           THEN \* srcObject = stream resets the element; play() is awaited
                /\ srcObject' = a
                /\ readyState' = HAVE_NOTHING
                /\ attempts' = [attempts EXCEPT ![a].pc = "play",
                                                ![a].stream = "live"]
                /\ event' = Ev("stream", "none", a, "none")
                /\ UNCHANGED <<fingerPositions, interactiveElements, rafQueue>>
           ELSE \* no video element: startVideoStream returns the stream
                \* and startProcessing makes the first call of the loop
                /\ attempts' = [attempts EXCEPT ![a].pc = "looping",
                                                ![a].stream = "live"]
                /\ ProcessFrame(attempts[a].mode, a)
                /\ UNCHANGED <<srcObject, readyState>>
        /\ UNCHANGED isProcessing
     \/ \* rejected: startVideoStream returns null
        /\ AbortStart(a)
        /\ UNCHANGED <<fingerPositions, interactiveElements, streamRef, srcObject,
                       readyState, rafQueue>>
  /\ UNCHANGED <<cameraPermission, processingMode, mounted, handLandmarkerRef,
                 gestureRecognizerRef, running, stopped,
                 probe, layout, call>>

\* video.play() fulfils once the element can play this attempt's stream;
\* startProcessing then makes the first call of the loop
PlayResolves(a) ==
  /\ running = <<>>
  /\ attempts[a].pc = "play"
  /\ srcObject = a
  /\ readyState >= HAVE_FUTURE_DATA
  /\ attempts' = [attempts EXCEPT ![a].pc = "looping"]
  /\ ProcessFrame(attempts[a].mode, a)
  /\ UNCHANGED <<cameraPermission, isProcessing, processingMode, mounted,
                 handLandmarkerRef, gestureRecognizerRef, streamRef, srcObject,
                 readyState, running, stopped,
                 probe, layout, call>>

\* video.play() rejects (not allowed, or the load was replaced or removed):
\* startVideoStream returns null with the stream still in streamRef
PlayRejects(a) ==
  /\ running = <<>>
  /\ attempts[a].pc = "play"
  /\ AbortStart(a)
  /\ UNCHANGED <<cameraPermission, processingMode, fingerPositions, mounted,
                 handLandmarkerRef, gestureRecognizerRef, streamRef, srcObject,
                 readyState, rafQueue, running, stopped,
                 interactiveElements, probe, layout, call>>

\* the video element receives data of the live stream it shows
VideoReadyStateChanges ==
  /\ running = <<>>
  /\ srcObject # Null
  /\ attempts[srcObject].stream = "live"
  /\ \E r \in {HAVE_FUTURE_DATA, HAVE_ENOUGH_DATA} :
       /\ r > readyState
       /\ readyState' = r
  /\ event' = Ev("video", "none", 0, "none")
  /\ UNCHANGED <<cameraPermission, isProcessing, processingMode, fingerPositions,
                 mounted, handLandmarkerRef, gestureRecognizerRef, streamRef,
                 srcObject, attempts, rafQueue, running, stopped,
                 interactiveElements, probe, layout, call>>

\* the body of stopProcessing, with or without a video element
stopProcessing(video) ==
  /\ isProcessing' = FALSE
  /\ IF video
     THEN setFingerPositions(EmptyPositions)
     ELSE \* unmounted: no render follows, the collision effect does not run
          fingerPositions' = EmptyPositions /\ UNCHANGED interactiveElements
  /\ streamRef' = Null
  /\ attempts' =
       [a \in DOMAIN attempts |->
          [attempts[a] EXCEPT
             !.stream = IF streamRef = a THEN "stopped" ELSE @,
             !.cancelled = @ \/ InFlight(a)]]
  /\ IF video
     THEN srcObject' = Null /\ readyState' = HAVE_NOTHING
     ELSE UNCHANGED <<srcObject, readyState>>
  /\ stopped' = (stopped \/ Streaming)

\* the stop button
StopCommand ==
  /\ running = <<>>
  /\ mounted
  /\ cameraPermission = "granted"
  /\ isProcessing
  /\ stopProcessing(videoRef)
  /\ event' = Ev("stop", "none", 0, "none")
  /\ UNCHANGED <<cameraPermission, processingMode, mounted, handLandmarkerRef,
                 gestureRecognizerRef, rafQueue, running,
                 probe, layout, call>>

\* the component unmounts: the video ref is cleared, then the effect
\* cleanup calls stopProcessing
Unmount ==
  /\ running = <<>>
  /\ mounted
  /\ mounted' = FALSE
  /\ stopProcessing(FALSE)
  /\ event' = Ev("unmount", "none", 0, "none")
  /\ UNCHANGED <<cameraPermission, processingMode, handLandmarkerRef,
                 gestureRecognizerRef, rafQueue, running,
                 probe, layout, call>>

Next ==
  \/ requestCameraAccess
  \/ CameraAccessSettles
  \/ setProcessingMode
  \/ startProcessing
  \/ \E a \in DOMAIN attempts : InitializeDetectorSettles(a)
  \/ \E a \in DOMAIN attempts : GetUserMediaSettles(a)
  \/ \E a \in DOMAIN attempts : PlayResolves(a)
  \/ \E a \in DOMAIN attempts : PlayRejects(a)
  \/ VideoReadyStateChanges
  \/ StopCommand
  \/ Unmount
  \/ TickBegin
  \/ RunCallback

Spec == Init /\ [][Next]_vars

TypeOK ==
  /\ cameraPermission \in {"idle", "requesting", "granted", "denied"}
  /\ isProcessing \in BOOLEAN
  /\ processingMode \in Modes
  /\ mounted \in BOOLEAN
  /\ handLandmarkerRef \in {Null} \cup DOMAIN attempts
  /\ gestureRecognizerRef \in {Null} \cup DOMAIN attempts
  /\ streamRef \in {Null} \cup DOMAIN attempts
  /\ srcObject \in {Null} \cup DOMAIN attempts
  /\ readyState \in {HAVE_NOTHING, HAVE_FUTURE_DATA, HAVE_ENOUGH_DATA}
  /\ Len(attempts) <= MaxStarts
  /\ Len(rafQueue) + Len(running) <= MaxStarts
  /\ stopped \in BOOLEAN

\* the display keeps refreshing: a scheduled callback is eventually run
FairSpec == Spec /\ WF_vars(TickBegin) /\ WF_vars(RunCallback)

\* ---- properties ----
DetectorCalled == event.op = "iterate" /\ event.outcome \in {"detected", "threw"}

Pending == Len(rafQueue) + Len(running)

\* the last step was a loop iteration and it scheduled itself again
Rescheduled ==
  /\ rafQueue # <<>>
  /\ rafQueue[Len(rafQueue)] = [fn |-> event.fn, owner |-> event.owner]

\* C1: after a stop that hit a Streaming session and until the next start
\* command, no loop iteration calls the detector and the session's capture
\* stream is released.
C1Claim ==
  stopped => /\ ~DetectorCalled
             /\ attempts[Len(attempts)].stream # "live"

\* C2: once a stop has ended a Streaming session, the frame loop eventually
\* has no scheduled iteration left.
C2Claim == stopped ~> (Pending = 0)

\* C3: at most one unreleased capture stream and at most one detector
\* instance are held at any time.
C3Claim ==
  /\ Cardinality(LiveStreams) <= 1
  /\ Cardinality(HeldDetectors) <= 1

\* C4: at most one rescheduling chain is active, so at most one loop
\* iteration runs per display refresh.
C4Claim == Pending <= 1

\* C5: an attempt that was still initializing when stop was called is never
\* wired in: its stream is not held in streamRef, its loop never begins and,
\* as long as it is the latest attempt, the state stays Idle.
C5Claim ==
  \A a \in DOMAIN attempts :
    attempts[a].cancelled =>
      /\ streamRef # a
      /\ attempts[a].pc # "looping"
      /\ (a = Len(attempts) => ~isProcessing)

\* C6: a start attempt whose detector or stream acquisition failed never runs
\* or schedules a loop iteration, its failure leaves isProcessing false, and
\* it is never retried: a failed attempt stays failed and a new attempt
\* appears only with a start command.
C6NoLoopAfterFailure ==
  /\ \A a \in DOMAIN attempts :
       attempts[a].pc = "failed" =>
         /\ \A i \in DOMAIN rafQueue : rafQueue[i].owner # a
         /\ \A i \in DOMAIN running : running[i].owner # a
         /\ ~(event.op = "iterate" /\ event.owner = a)
  /\ event.op = "abort" =>
       /\ ~isProcessing
       /\ attempts[event.owner].pc = "failed"

C6NoRetry ==
  /\ \A a \in DOMAIN attempts :
       attempts[a].pc = "failed" => attempts'[a].pc = "failed"
  /\ Len(attempts') # Len(attempts) =>
       /\ mounted /\ ~isProcessing /\ isProcessing'
       /\ event'.op = "start"
       /\ Len(attempts') = Len(attempts) + 1

C6Theorem == [](C6NoLoopAfterFailure) /\ [][C6NoRetry]_vars

\* an attempt has failed after it had acquired its stream, the state is Idle
\* and no iteration is scheduled
C6Witness ==
  /\ \E a \in DOMAIN attempts :
       attempts[a].pc = "failed" /\ attempts[a].stream = "live"
  /\ ~isProcessing
  /\ Pending = 0

\* C7: once a start attempt has aborted and the state is Idle again, the
\* stream that attempt acquired is not left unstopped.
C7Claim ==
  \A a \in DOMAIN attempts :
    (attempts[a].pc = "failed" /\ ~isProcessing) => attempts[a].stream # "live"

\* C8: a stop or unmount leaves streamRef cleared, the stream it held stopped
\* and the pointer map empty, and the pointer map is empty whenever the state
\* is Idle.
C8Claim ==
  /\ event.op \in {"stop", "unmount"} =>
       /\ streamRef = Null
       /\ fingerPositions = EmptyPositions
  /\ ~isProcessing => fingerPositions = EmptyPositions

\* C9: an iteration whose detector call throws leaves the pointer map empty
\* and schedules the next iteration.
C9Claim ==
  (event.op = "iterate" /\ event.outcome = "threw") =>
    /\ fingerPositions = EmptyPositions
    /\ Rescheduled

\* C10: an iteration that finds the video element absent, the detector ref
\* null or readyState other than 4 makes no detector call, raises no error,
\* leaves the pointer map as it was and schedules the next iteration.
NotReady(fn) ==
  \/ ~videoRef
  \/ (IF fn = "hand" THEN handLandmarkerRef ELSE gestureRecognizerRef) = Null
  \/ readyState # HAVE_ENOUGH_DATA

C10Step ==
  (event'.op = "iterate" /\ NotReady(event'.fn)) =>
    /\ event'.outcome = "notready"
    /\ fingerPositions' = fingerPositions
    /\ rafQueue' = Append(rafQueue, [fn |-> event'.fn, owner |-> event'.owner])

C10Theorem == [][C10Step]_vars

\* a Streaming session has just run an iteration that was not ready
C10Witness ==
  /\ Streaming
  /\ event.op = "iterate"
  /\ event.outcome = "notready"
  /\ event.owner = Len(attempts)
  /\ readyState = HAVE_FUTURE_DATA
  /\ Rescheduled

\* C17: once a session of one mode was stopped while Streaming and a session
\* of the other mode started, every detector call is one of the new mode's
\* detector, made by the new session's loop.
C17Claim ==
  LET n == Len(attempts)
  IN (/\ n >= 2
      /\ attempts[n - 1].pc = "looping"
      /\ ~attempts[n - 1].cancelled
      /\ attempts[n - 1].mode # attempts[n].mode)
       => (DetectorCalled => /\ event.fn = attempts[n].mode
                             /\ event.owner = n)

\* C18: at most one startProcessing initialization sequence is in flight.
C18Claim == Cardinality({ a \in DOMAIN attempts : InFlight(a) }) <= 1

\* C19: a mode selection while a session is initializing or Streaming
\* changes nothing of that session (its detector and mode, the held stream,
\* the video, the scheduled loop, the pointer map, isProcessing), and a start
\* command takes the mode selected at that moment.
C19Step ==
  /\ (event'.op = "mode" /\ isProcessing) =>
       /\ attempts' = attempts
       /\ handLandmarkerRef' = handLandmarkerRef
       /\ gestureRecognizerRef' = gestureRecognizerRef
       /\ streamRef' = streamRef
       /\ srcObject' = srcObject
       /\ readyState' = readyState
       /\ rafQueue' = rafQueue
       /\ fingerPositions' = fingerPositions
       /\ isProcessing' = isProcessing
  /\ event'.op = "start" =>
       /\ Len(attempts') = Len(attempts) + 1
       /\ attempts'[Len(attempts')].mode = processingMode
       /\ \A a \in DOMAIN attempts : attempts'[a] = attempts[a]

C19Theorem == [][C19Step]_vars

\* the other mode was selected while the session streams in its own mode
C19Witness ==
  /\ event.op = "mode"
  /\ Streaming
  /\ attempts[Len(attempts)].mode # processingMode
  /\ rafQueue # <<>>

\* C20: cameraPermission moves only idle -> requesting -> granted | denied
\* and denied -> requesting; the settling of the probe getUserMedia leaves
\* granted or denied; in state granted the probe stream's tracks are stopped
\* and no probe stream is ever left live; a start command happens only in
\* state granted.
C20Moves ==
  { <<"idle", "requesting">>, <<"requesting", "granted">>,
    <<"requesting", "denied">>, <<"denied", "requesting">> }

C20Step ==
  /\ cameraPermission' # cameraPermission =>
       <<cameraPermission, cameraPermission'>> \in C20Moves
  /\ event'.op = "probe" =>
       /\ cameraPermission = "requesting"
       /\ cameraPermission' \in {"granted", "denied"}
  /\ event'.op = "start" => cameraPermission = "granted"

C20Theorem ==
  /\ [](probe # "live" /\ (cameraPermission = "granted" => probe = "stopped"))
  /\ [][C20Step]_vars

\* a start command given after the probe was granted and stopped
C20Witness ==
  /\ event.op = "start"
  /\ cameraPermission = "granted"
  /\ probe = "stopped"

\* ---- convertToScreenPosition on its own ----
\* window sizes, detection scales and vertical offsets the function is
\* applied under; the first of each is the program's
Viewports == { <<InnerWidth, InnerHeight>>, <<InnerHeight, InnerHeight>>,
               <<2 * InnerHeight, InnerHeight>> }
Scales == { <<DetectionScaleNum, DetectionScaleDen>>, <<1, 1>> }
Offsets == { verticalOffset, verticalOffset + 40 }

Configs ==
  { [w |-> v[1], h |-> v[2], sn |-> sc[1], sd |-> sc[2], vo |-> o] :
      v \in Viewports, sc \in Scales, o \in Offsets }

MapInit ==
  /\ FreshComponent
  /\ call \in { [kind |-> "map", x |-> x, y |-> y, c |-> c,
                 done |-> FALSE, out |-> NoPosition] :
                  x \in 0 .. Unit, y \in 0 .. Unit, c \in Configs }

MapApply ==
  /\ ~call.done
  /\ call' = [call EXCEPT !.done = TRUE, !.out = Convert(call.x, call.y, call.c)]
  /\ UNCHANGED <<cameraPermission, isProcessing, processingMode, fingerPositions,
                 mounted, handLandmarkerRef, gestureRecognizerRef, streamRef,
                 srcObject, readyState, attempts, rafQueue, running, stopped,
                 event, interactiveElements, probe, layout>>

MapNext == MapApply

MapSpec == MapInit /\ [][MapNext]_vars

Abs(n) == IF n < 0 THEN 0 - n ELSE n

\* scaledX and scaledY both lie in [0,1]: the point is within half the
\* detection scale of the centre, vertically after the aspect correction
InsideScaled(x, y, c) ==
  /\ Abs(2 * x - Unit) * c.sd <= Unit * c.sn
  /\ Abs(2 * y - Unit) * c.w * VideoHeight * c.sd <= Unit * c.h * VideoWidth * c.sn

Mapped == call.done /\ call.out.ok

\* C14 as claimed: every mapped position lies in the viewport, whatever the
\* configuration.
C14Claim ==
  Mapped =>
    /\ 0 <= call.out.x /\ call.out.x <= call.c.w * PixDenIn(call.c)
    /\ 0 <= call.out.y /\ call.out.y <= call.c.h * PixDenIn(call.c)

\* C14: every mapped position has 0 <= x <= viewportWidth and
\* verticalOffset <= y <= viewportHeight + verticalOffset, which is the
\* viewport for the program's verticalOffset of 0.
C14Theorem ==
  Mapped =>
    /\ 0 <= call.out.x /\ call.out.x <= call.c.w * PixDenIn(call.c)
    /\ call.c.vo * PixDenIn(call.c) <= call.out.y
    /\ call.out.y <= (call.c.h + call.c.vo) * PixDenIn(call.c)
    /\ call.c.vo = verticalOffset =>
         (0 <= call.out.y /\ call.out.y <= call.c.h * PixDenIn(call.c))

\* a point mapped below the viewport under a non-zero offset
C14Witness ==
  /\ Mapped
  /\ call.c.vo # 0
  /\ call.out.y > call.c.h * PixDenIn(call.c)

\* C15: the mapper returns null exactly when scaledX or scaledY is outside
\* [0,1]; points with scaledX or scaledY on 0 or 1 are mapped.
C15Theorem == call.done => (call.out.ok <=> InsideScaled(call.x, call.y, call.c))

\* a point with scaledX on the boundary and scaledY on the boundary, mapped
C15Witness ==
  /\ Mapped
  /\ call.c = ProgramConfig
  /\ Abs(2 * call.x - Unit) * call.c.sd = Unit * call.c.sn
  /\ Abs(2 * call.y - Unit) * call.c.w * VideoHeight * call.c.sd
       = Unit * call.c.h * VideoWidth * call.c.sn

\* C16: with detectionScale 1, the window in the video's aspect ratio and
\* verticalOffset 0, every (x, y) of [0,1]^2 maps to ((1 - x) * W, y * H).
Undistorted(c) ==
  /\ c.sn = c.sd
  /\ c.w * VideoHeight = c.h * VideoWidth
  /\ c.vo = 0

DetailTips ==
  { [hasTip |-> FALSE, x |-> 0, y |-> 0],
    [hasTip |-> TRUE, x |-> 0, y |-> 5],
    [hasTip |-> TRUE, x |-> 7, y |-> 5],
    [hasTip |-> TRUE, x |-> 3, y |-> 5] }

DetailHands == { [tip |-> t, gestures |-> g] : t \in DetailTips, g \in Rankings }

DetailFrames == SeqsUpTo(DetailHands, MaxHands)

\* a session of mode m that streams with the video ready: the state after
\* permission, start, detector, stream and play, before the first detection
SessionReady(m) ==
  /\ cameraPermission = "granted"
  /\ isProcessing = TRUE
  /\ processingMode = m
  /\ fingerPositions = EmptyPositions
  /\ mounted = TRUE
  /\ handLandmarkerRef = (IF m = "hand" THEN 1 ELSE Null)
  /\ gestureRecognizerRef = (IF m = "gesture" THEN 1 ELSE Null)
  /\ streamRef = 1
  /\ srcObject = 1
  /\ readyState = HAVE_ENOUGH_DATA
  /\ attempts = << [mode |-> m, pc |-> "looping", stream |-> "live",
                    cancelled |-> FALSE] >>
  /\ rafQueue = << [fn |-> m, owner |-> 1] >>
  /\ running = <<>>
  /\ stopped = FALSE
  /\ event = Ev("video", "none", 0, "none")
  /\ interactiveElements = InitialElements
  /\ probe = "stopped"
  /\ layout = ProgramLayout

FrameInit ==
  /\ \E m \in Modes : SessionReady(m)
  /\ call = [kind |-> "frame", result |-> <<>>, hadPointer |-> FALSE]

\* a callback of the refresh whose detector call returns result; call keeps
\* the result and whether a pointer was shown before
FrameRunCallback ==
  /\ running # <<>>
  /\ LET fn == Head(running).fn
         detector == IF fn = "hand" THEN handLandmarkerRef ELSE gestureRecognizerRef
     IN /\ videoRef /\ detector # Null /\ readyState = HAVE_ENOUGH_DATA
        /\ \E result \in DetailFrames :
             /\ call' = [kind |-> "frame", result |-> result,
                         hadPointer |-> DOMAIN fingerPositions # {}]
             /\ setFingerPositions(IF fn = "hand" THEN HandUpdate(result)
                                   ELSE GestureUpdate(result))
             /\ event' = Ev("iterate", fn, Head(running).owner, "detected")
        /\ rafQueue' = Append(rafQueue, Head(running))
  /\ running' = Tail(running)
  /\ UNCHANGED <<cameraPermission, isProcessing, processingMode, mounted,
                 handLandmarkerRef, gestureRecognizerRef, streamRef,
                 srcObject, readyState, attempts, stopped, probe, layout>>

\* the layout changes and the region elements move
MoveLayout ==
  /\ running = <<>>
  /\ \E l \in Layouts : l # layout /\ layout' = l
  /\ event' = Ev("layout", "none", 0, "none")
  /\ UNCHANGED <<cameraPermission, isProcessing, processingMode, fingerPositions,
                 mounted, handLandmarkerRef, gestureRecognizerRef, streamRef,
                 srcObject, readyState, attempts, rafQueue, running, stopped,
                 interactiveElements, probe, call>>

FrameNext ==
  \/ TickBegin
  \/ FrameRunCallback
  \/ MoveLayout

FrameSpec == FrameInit /\ [][FrameNext]_vars

\* the last step was an iteration whose detector call returned
Detected == event.op = "iterate" /\ event.outcome = "detected"

TopPasses(hand) ==
  /\ hand.gestures[1].categoryName = pointGesture
  /\ hand.gestures[1].score >= gestureThreshold

TipMaps(hand) ==
  /\ hand.tip.hasTip
  /\ InsideScaled(hand.tip.x, hand.tip.y, ProgramConfig)

\* C11: after a gesture-mode frame the pointer map contains i only if the
\* first classification of hand i is the pointing gesture with a score of at
\* least the threshold, and it does contain every such hand whose tip maps,
\* whatever the lower-ranked classifications are.
C11Theorem ==
  (Detected /\ event.fn = "gesture") =>
    /\ \A i \in DOMAIN fingerPositions : TopPasses(call.result[i + 1])
    /\ \A i \in HandIndexes(call.result) :
         (TopPasses(call.result[i + 1]) /\ TipMaps(call.result[i + 1]))
           => i \in DOMAIN fingerPositions

\* a hand whose first classification is below the threshold and whose second
\* would pass, with a tip that maps, is left out
C11Witness ==
  /\ Detected /\ event.fn = "gesture"
  /\ Len(call.result) = 1
  /\ Len(call.result[1].gestures) = 2
  /\ call.result[1].gestures[1].score = gestureThreshold - 1
  /\ TopPasses([call.result[1] EXCEPT !.gestures = Tail(@)])
  /\ TipMaps(call.result[1])
  /\ fingerPositions = EmptyPositions

\* C12: after a processed frame the pointer map has exactly the source
\* indexes with a qualifying candidate that the mapper accepts, each at the
\* mapped point; a frame without such a source gives the empty map.
Candidates(fn, result) ==
  { i \in HandIndexes(result) :
      /\ result[i + 1].tip.hasTip
      /\ fn = "gesture" => TopPasses(result[i + 1]) }

C12Theorem ==
  Detected =>
    /\ DOMAIN fingerPositions =
         { i \in Candidates(event.fn, call.result) : TipMaps(call.result[i + 1]) }
    /\ \A i \in DOMAIN fingerPositions :
         fingerPositions[i] =
           convertToScreenPosition(call.result[i + 1].tip.x, call.result[i + 1].tip.y)

\* an empty result clears the pointer that was shown
C12Witness ==
  /\ Detected
  /\ call.hadPointer
  /\ call.result = <<>>
  /\ fingerPositions = EmptyPositions

====
